---- MODULE Spec2Model ----
(***************************************************************************)
(* Model of the citation-network collection scripts:                       *)
(*   extraction_open_citations.py   (edge collection, worker pool, dedup)  *)
(*   generate_citation_graph.py     (per-sub-area graph partitioning)      *)
(*   verify_data.py                 (bidirectional pair check)             *)
(*   *_open_alex_selenium.py        (paginated metadata fetch)             *)
(*                                                                         *)
(* Strings are sequences of atoms.  An atom is either a blank, one of the  *)
(* scheme markers in a given letter case, or an opaque chunk of text.      *)
(***************************************************************************)
EXTENDS Integers, Sequences, FiniteSets, TLC

VARIABLES
    \* extraction_open_citations.py
    network,      \* "up" | "down": whether the citation service is reachable
    pubs,         \* all_publications: sequence of <<doi, sub_area>>
    tasks,        \* one record per submitted future
    all_edges,    \* the accumulator of main
    df_edges,     \* the rows written to the output file
    mainpc,       \* position of main

    \* identifier normalisation applied to one input
    nfun, nin, nout, nout2, npc,

    \* generate_citation_graph.py
    rows,         \* the rows of the edge file, as read by csv.DictReader
    gpos,         \* number of rows create_subarea_graphs has processed
    graphs,       \* area -> [nodes: id -> sub_area attribute, edges: set of pairs]

    \* extraction_open_alex_selenium.py / data_collection_open_alex_selenium.py
    fetcher,      \* the paginated fetch that runs: "fetch_all_data" | "fetch_cited_by"
    per_page,     \* its page size
    catalogue,    \* the service: [count: matching works, meta: whether meta.count is sent]
    requests,     \* the page numbers requested so far, in order
    total_pages,  \* as computed after page 1
    results,      \* all_results / cited_by_list
    page_error,   \* whether a page fetch raised
    ppc,          \* position of the fetch

    \* verify_data.py
    csv_rows,     \* the rows of citations_edgelist.csv
    vpos,         \* number of rows read
    edges,        \* the set of (origin, target) pairs
    visited,      \* the pairs the second loop has iterated over
    two_way_edges,
    output,       \* what was printed: [header, pairs]
    vpc,          \* position of the script

    \* the network resource of a collection script
    script,       \* the script that runs
    resource,     \* the browser driver / HTTP session: [open, releases, fetches, late]
    runpc         \* position of the script's top level

vars == <<network, pubs, tasks, all_edges, df_edges, mainpc,
          nfun, nin, nout, nout2, npc, rows, gpos, graphs,
          fetcher, per_page, catalogue, requests, total_pages, results, page_error, ppc,
          csv_rows, vpos, edges, visited, two_way_edges, output, vpc,
          script, resource, runpc>>

citVars == <<network, pubs, tasks, all_edges, df_edges, mainpc>>
normVars == <<nfun, nin, nout, nout2, npc>>
graphVars == <<rows, gpos, graphs>>
pageVars == <<fetcher, per_page, catalogue, requests, total_pages, results, page_error, ppc>>
verifyVars == <<csv_rows, vpos, edges, visited, two_way_edges, output, vpc>>
sessVars == <<script, resource, runpc>>

-----------------------------------------------------------------------------
(* Bounds *)

MaxPubs == 2
PoolPubs == 11
MaxIdLen == 3
MaxRows == 3
MaxCount == 100
MaxCsvRows == 3
MaxFetches == 8

-----------------------------------------------------------------------------
(* Strings *)

WS == " "
DOI_MARK == "doi:"
DOI_MARK_UC == "DOI:"
URL_MARK == "https://doi.org/"
URL_MARK_UC == "HTTPS://DOI.ORG/"

NoneVal == "None"

\* str.lower() on one atom: only the markers have a distinct lower-case form
LowerAtom(c) ==
    IF c = DOI_MARK_UC THEN DOI_MARK
    ELSE IF c = URL_MARK_UC THEN URL_MARK
    ELSE c

\* str.lower()
Lower(s) == [i \in DOMAIN s |-> LowerAtom(s[i])]

\* str.startswith(prefix) for a one-atom prefix
StartsWith(s, prefix) == Len(s) >= 1 /\ s[1] = prefix

RECURSIVE LStrip(_)
LStrip(s) == IF s # <<>> /\ Head(s) = WS THEN LStrip(Tail(s)) ELSE s

RECURSIVE RStrip(_)
RStrip(s) ==
    IF s # <<>> /\ s[Len(s)] = WS THEN RStrip(SubSeq(s, 1, Len(s) - 1)) ELSE s

\* str.strip()
Strip(s) == RStrip(LStrip(s))

\* s.split(sep)[-1] for a one-atom separator: what follows the last
\* occurrence of sep, or all of s when sep does not occur
SplitLast(s, sep) ==
    LET occ == {i \in DOMAIN s : s[i] = sep}
    IN  IF occ = {} THEN s
        ELSE LET last == CHOOSE i \in occ : \A j \in occ : j <= i
             IN  SubSeq(s, last + 1, Len(s))

\* str.split(): the maximal runs of non-blank atoms, in order
RECURSIVE SplitWS(_)
SplitWS(s) ==
    LET t == LStrip(s)
    IN  IF t = <<>> THEN <<>>
        ELSE LET blanks == {i \in DOMAIN t : t[i] = WS}
                 stop == IF blanks = {} THEN Len(t) + 1
                         ELSE CHOOSE i \in blanks : \A j \in blanks : i <= j
             IN  <<SubSeq(t, 1, stop - 1)>> \o SplitWS(SubSeq(t, stop, Len(t)))

\* str.removeprefix(prefix) for a one-atom prefix (case-sensitive)
RemovePrefix(s, prefix) == IF StartsWith(s, prefix) THEN Tail(s) ELSE s

-----------------------------------------------------------------------------
(* extraction_open_citations.py: identifier extraction *)

\* re.search(r"doi:(\S+)", s, re.IGNORECASE): positions where the marker (in
\* either letter case) is followed by at least one non-blank atom
DoiMatches(s) ==
    {i \in DOMAIN s : /\ LowerAtom(s[i]) = DOI_MARK
                      /\ i < Len(s)
                      /\ s[i + 1] # WS}

\* group(1) of the leftmost match: the run of non-blank atoms after the marker
MatchGroup(s, i) ==
    LET blanks == {j \in (i + 1)..Len(s) : s[j] = WS}
        stop == IF blanks = {} THEN Len(s) + 1
                ELSE CHOOSE j \in blanks : \A k \in blanks : j <= k
    IN  SubSeq(s, i + 1, stop - 1)

\* the branch of extract_doi that strips the resolver URL
UrlBranchNoGuard(s) == TRUE

UrlBranch(s) == StartsWith(Lower(s), URL_MARK)

extract_doi(doi_str) ==
    LET s == Strip(doi_str)
        m == DoiMatches(s)
    IN  IF UrlBranch(s) THEN SplitLast(s, URL_MARK)
        ELSE IF m # {}
             THEN MatchGroup(s, CHOOSE i \in m : \A j \in m : i <= j)
             ELSE s

\* one token of extract_dois: the identifiers it contributes (none or one)
ExtractToken(token) ==
    LET t == Strip(token)
    IN  IF StartsWith(Lower(t), DOI_MARK) THEN <<Strip(SplitLast(t, DOI_MARK))>>
        ELSE IF StartsWith(Lower(t), URL_MARK)
             THEN <<Strip(SplitLast(t, URL_MARK))>>
             ELSE <<>>

RECURSIVE ExtractTokens(_)
ExtractTokens(tokens) ==
    IF tokens = <<>> THEN <<>>
    ELSE ExtractToken(Head(tokens)) \o ExtractTokens(Tail(tokens))

extract_dois(doi_field) == ExtractTokens(SplitWS(doi_field))

\* the doi prefix-stripping step of parse_results
parse_results_doi(doi) == RemovePrefix(doi, URL_MARK)

-----------------------------------------------------------------------------
(* extraction_open_citations.py: the citation service *)

\* a JSON record of a references/citations answer; keys are the fields present
Rec(citing, cited) == [keys |-> {"citing", "cited"}, citing |-> citing, cited |-> cited]

RecNoIds == [keys |-> {}, citing |-> <<>>, cited |-> <<>>]

\* record.get(key) is truthy: the key is present and its text is not empty
Truthy(record, key) == key \in record.keys /\ record[key] # <<>>

InvalidJson == [type |-> "invalid", items |-> <<>>]

Transport == [err |-> TRUE, status |-> 0, json |-> InvalidJson]

HttpError == [err |-> FALSE, status |-> 404, json |-> InvalidJson]

BadJson == [err |-> FALSE, status |-> 200, json |-> InvalidJson]

NullBody == [err |-> FALSE, status |-> 200, json |-> [type |-> "null", items |-> <<>>]]

ObjectBody == [err |-> FALSE, status |-> 200, json |-> [type |-> "object", items |-> <<>>]]

ListBody(items) == [err |-> FALSE, status |-> 200, json |-> [type |-> "list", items |-> items]]

\* the record lists the service may answer with
ListBodies ==
    { <<>>,
      << Rec(<<"o", WS, DOI_MARK, "a", WS, URL_MARK, "a">>,
             <<"o", WS, DOI_MARK, "b", WS, WS, URL_MARK, "b">>),
         RecNoIds >>,
      << Rec(<<DOI_MARK, "b">>, <<DOI_MARK_UC, "a", WS, DOI_MARK, "c">>) >> }

\* what one request may be answered with
Service(net) ==
    IF net = "down" THEN {Transport}
    ELSE {Transport, HttpError, BadJson, NullBody, ObjectBody}
         \cup {ListBody(items) : items \in ListBodies}

-----------------------------------------------------------------------------
(* extraction_open_citations.py: get_references, get_citations, process_doi *)

Edge(o, t, osa, tsa) ==
    [origin_doi |-> o, target_doi |-> t, origin_sub_area |-> osa, target_sub_area |-> tsa]

\* every candidate of every record whose field is truthy, in order
RECURSIVE Candidates(_, _)
Candidates(items, key) ==
    IF items = <<>> THEN <<>>
    ELSE (IF Truthy(Head(items), key) THEN extract_dois(Head(items)[key]) ELSE <<>>)
         \o Candidates(Tail(items), key)

KeepEveryCandidate(candidate, doi) == TRUE

\* the test "candidate != doi" of both queries
KeepCandidate(candidate, doi) == candidate # doi

Kept(items, key, doi) ==
    SelectSeq(Candidates(items, key), LAMBDA c : KeepCandidate(c, doi))

\* the number of "Skipping self-..." lines a query logs
Skipped(items, key, doi) == Len(Candidates(items, key)) - Len(Kept(items, key, doi))

\* outcome of one query: q is "ok" (answered), "failed" (caught, no edges) or
\* "raised" (an exception leaves the function)
Outcome(q, exc, edge_list, skips) == [q |-> q, exc |-> exc, edges |-> edge_list, skips |-> skips]

QueryOutcome(resp, edge_list, skips) ==
    IF resp.err THEN Outcome("failed", "", <<>>, 0)
    ELSE IF resp.status # 200 THEN Outcome("failed", "", <<>>, 0)
    ELSE IF resp.json.type = "invalid" THEN Outcome("failed", "", <<>>, 0)
    ELSE IF resp.json.type = "null" THEN Outcome("raised", "TypeError", <<>>, 0)
    ELSE IF resp.json.type = "object" THEN Outcome("raised", "AttributeError", <<>>, 0)
    ELSE Outcome("ok", "", edge_list, skips)

get_references(doi, resp) ==
    LET items == IF resp.json.type = "list" THEN resp.json.items ELSE <<>>
        k == Kept(items, "cited", doi)
    IN  QueryOutcome(resp, [i \in 1..Len(k) |-> Edge(doi, k[i], NoneVal, NoneVal)],
                     Skipped(items, "cited", doi))

get_citations(doi, resp) ==
    LET items == IF resp.json.type = "list" THEN resp.json.items ELSE <<>>
        k == Kept(items, "citing", doi)
    IN  QueryOutcome(resp, [i \in 1..Len(k) |-> Edge(k[i], doi, NoneVal, NoneVal)],
                     Skipped(items, "citing", doi))

TagBothEnds(edge_list, sub_area) ==
    [i \in DOMAIN edge_list |->
        [edge_list[i] EXCEPT !.origin_sub_area = sub_area, !.target_sub_area = sub_area]]

TagOrigin(edge_list, sub_area) ==
    [i \in DOMAIN edge_list |-> [edge_list[i] EXCEPT !.origin_sub_area = sub_area]]

TagTarget(edge_list, sub_area) ==
    [i \in DOMAIN edge_list |-> [edge_list[i] EXCEPT !.target_sub_area = sub_area]]

NewTask ==
    [st |-> "unsubmitted", runs |-> 0, refs_q |-> "none", cits_q |-> "none",
     refs |-> <<>>, cits |-> <<>>, skips |-> 0, exc |-> "", ret |-> <<>>]

\* the task after process_doi(doi, sub_area) ran with the two answers rr, cr;
\* the citations request is not made when get_references raised
process_doi(t, doi, sub_area, rr, cr) ==
    LET r == get_references(doi, rr)
        refs == TagOrigin(r.edges, sub_area)
        c == get_citations(doi, cr)
        cits == TagTarget(c.edges, sub_area)
    IN  IF r.q = "raised"
        THEN [t EXCEPT !.st = "finished", !.refs_q = "raised", !.exc = r.exc]
        ELSE IF c.q = "raised"
        THEN [t EXCEPT !.st = "finished", !.refs_q = r.q, !.refs = refs,
                       !.skips = r.skips, !.cits_q = "raised", !.exc = c.exc]
        ELSE [t EXCEPT !.st = "finished", !.refs_q = r.q, !.refs = refs,
                       !.cits_q = c.q, !.cits = cits, !.skips = r.skips + c.skips,
                       !.ret = refs \o cits]

-----------------------------------------------------------------------------
(* extraction_open_citations.py: main *)

areas == <<"ai", "arch", "bio", "chi", "cse", "data", "dbis", "ds", "formal",
           "graphics", "hardware", "ir", "net", "or", "pl", "robotics", "se",
           "security", "theory", "vision">>

SeedDois == << <<"a">>, <<"b">> >>

\* the i-th loaded publication: the seed identifiers spread over the areas
PubAt(i) == <<SeedDois[((i - 1) % Len(SeedDois)) + 1], areas[((i - 1) % Len(areas)) + 1]>>

PubList(n) == [i \in 1..n |-> PubAt(i)]

max_workers == 10

Running == {i \in DOMAIN tasks : tasks[i].st = "running"}

AllSubmitted == \A i \in DOMAIN tasks : tasks[i].st # "unsubmitted"

AllCollected == \A i \in DOMAIN tasks : tasks[i].st = "collected"

WorkerFreeAlways == TRUE

\* a worker thread of the pool is free to take the next work item
WorkerFree == Cardinality(Running) < max_workers

CatchesNothing(exc) == FALSE

\* "except Exception" around future.result()
Catches(exc) == exc \in {"TypeError", "AttributeError"}

DropNothing(frame) == frame

\* DataFrame.drop_duplicates(): the first occurrence of every row, in order
drop_duplicates(frame) ==
    LET keep == {i \in DOMAIN frame : \A j \in 1..(i - 1) : frame[j] # frame[i]}
    IN  [k \in 1..Cardinality(keep) |->
            frame[CHOOSE i \in keep : Cardinality({j \in keep : j <= i}) = k]]

ExtendOverwrites(acc, items) == items

\* all_edges.extend(edges)
extend(acc, items) == acc \o items

InitCit(net, n) ==
    /\ network = net
    /\ pubs = PubList(n)
    /\ tasks = [i \in 1..n |-> NewTask]
    /\ all_edges = <<>>
    /\ df_edges = <<>>
    /\ mainpc = "pool"

\* executor.submit for the next publication of the list
Submit ==
    /\ mainpc = "pool"
    /\ \E i \in DOMAIN tasks :
          /\ tasks[i].st = "unsubmitted"
          /\ \A j \in 1..(i - 1) : tasks[j].st # "unsubmitted"
          /\ tasks' = [tasks EXCEPT ![i].st = "queued"]
    /\ UNCHANGED <<network, pubs, all_edges, df_edges, mainpc>>
    /\ UNCHANGED normVars
    /\ UNCHANGED graphVars
    /\ UNCHANGED pageVars
    /\ UNCHANGED verifyVars
    /\ UNCHANGED sessVars

\* a free worker takes the oldest queued work item and calls process_doi
StartTask ==
    /\ WorkerFree
    /\ \E i \in DOMAIN tasks :
          /\ tasks[i].st = "queued"
          /\ \A j \in 1..(i - 1) : tasks[j].st # "queued"
          /\ tasks' = [tasks EXCEPT ![i].st = "running", ![i].runs = @ + 1]
    /\ UNCHANGED <<network, pubs, all_edges, df_edges, mainpc>>
    /\ UNCHANGED normVars
    /\ UNCHANGED graphVars
    /\ UNCHANGED pageVars
    /\ UNCHANGED verifyVars
    /\ UNCHANGED sessVars

\* process_doi runs to its end: it returns or raises
FinishTask ==
    /\ \E i \in DOMAIN tasks :
          /\ tasks[i].st = "running"
          /\ \E rr \in Service(network), cr \in Service(network) :
                tasks' = [tasks EXCEPT
                            ![i] = process_doi(@, pubs[i][1], pubs[i][2], rr, cr)]
    /\ UNCHANGED <<network, pubs, all_edges, df_edges, mainpc>>
    /\ UNCHANGED normVars
    /\ UNCHANGED graphVars
    /\ UNCHANGED pageVars
    /\ UNCHANGED verifyVars
    /\ UNCHANGED sessVars

\* one iteration of the as_completed loop
Collect ==
    /\ mainpc = "pool"
    /\ AllSubmitted
    /\ \E i \in DOMAIN tasks :
          /\ tasks[i].st = "finished"
          /\ tasks' = [tasks EXCEPT ![i].st = "collected"]
          /\ IF tasks[i].exc = ""
             THEN /\ all_edges' = extend(all_edges, tasks[i].ret)
                  /\ mainpc' = mainpc
             ELSE /\ all_edges' = all_edges
                  /\ mainpc' = IF Catches(tasks[i].exc) THEN mainpc ELSE "crashed"
    /\ UNCHANGED <<network, pubs, df_edges>>
    /\ UNCHANGED normVars
    /\ UNCHANGED graphVars
    /\ UNCHANGED pageVars
    /\ UNCHANGED verifyVars
    /\ UNCHANGED sessVars

\* after the pool: build the frame, drop duplicates, write the file
Finalize ==
    /\ mainpc = "pool"
    /\ AllSubmitted
    /\ AllCollected
    /\ df_edges' = drop_duplicates(all_edges)
    /\ mainpc' = "done"
    /\ UNCHANGED <<network, pubs, tasks, all_edges>>
    /\ UNCHANGED normVars
    /\ UNCHANGED graphVars
    /\ UNCHANGED pageVars
    /\ UNCHANGED verifyVars
    /\ UNCHANGED sessVars

IdleSession ==
    /\ script = "none"
    /\ resource = [open |-> FALSE, releases |-> 0, fetches |-> 0, late |-> 0]
    /\ runpc = "idle"

IdleNorm ==
    /\ nfun = "extract_doi"
    /\ nin = <<>>
    /\ nout = <<>>
    /\ nout2 = <<>>
    /\ npc = "idle"

IdleGraph ==
    /\ rows = <<>>
    /\ gpos = 0
    /\ graphs = <<>>

IdlePage ==
    /\ fetcher = "none"
    /\ per_page = 1
    /\ catalogue = [count |-> 0, meta |-> FALSE]
    /\ requests = <<>>
    /\ total_pages = 0
    /\ results = <<>>
    /\ page_error = FALSE
    /\ ppc = "idle"

IdleVerify ==
    /\ csv_rows = <<>>
    /\ vpos = 0
    /\ edges = {}
    /\ visited = {}
    /\ two_way_edges = {}
    /\ output = [header |-> "", pairs |-> <<>>]
    /\ vpc = "idle"

Init ==
    /\ IdleSession
    /\ \E net \in {"up", "down"}, n \in 0..MaxPubs : InitCit(net, n)
    /\ IdleNorm
    /\ IdleGraph
    /\ IdlePage
    /\ IdleVerify

InitPool ==
    /\ IdleSession
    /\ InitCit("down", PoolPubs)
    /\ IdleNorm
    /\ IdleGraph
    /\ IdlePage
    /\ IdleVerify

Next == Submit \/ StartTask \/ FinishTask \/ Collect \/ Finalize

Spec == Init /\ [][Next]_vars

SpecPool == InitPool /\ [][Next]_vars

-----------------------------------------------------------------------------
(* Normalisation of one identifier *)

Atoms == {WS, DOI_MARK, DOI_MARK_UC, URL_MARK, URL_MARK_UC, "a", "b"}

IdStrings == UNION {[1..n -> Atoms] : n \in 0..MaxIdLen}

NormFuns == {"extract_doi", "parse_results"}

ApplyNorm(f, s) == IF f = "extract_doi" THEN extract_doi(s) ELSE parse_results_doi(s)

IdleCit ==
    /\ network = "down"
    /\ pubs = <<>>
    /\ tasks = <<>>
    /\ all_edges = <<>>
    /\ df_edges = <<>>
    /\ mainpc = "idle"

InitNorm ==
    /\ IdleSession
    /\ IdleCit
    /\ IdleGraph
    /\ IdlePage
    /\ IdleVerify
    /\ nfun \in NormFuns
    /\ nin \in IdStrings
    /\ nout = <<>>
    /\ nout2 = <<>>
    /\ npc = "input"

Normalize ==
    /\ npc = "input"
    /\ nout' = ApplyNorm(nfun, nin)
    /\ npc' = "once"
    /\ UNCHANGED <<nfun, nin, nout2>>
    /\ UNCHANGED citVars
    /\ UNCHANGED graphVars
    /\ UNCHANGED pageVars
    /\ UNCHANGED verifyVars
    /\ UNCHANGED sessVars

NormalizeAgain ==
    /\ npc = "once"
    /\ nout2' = ApplyNorm(nfun, nout)
    /\ npc' = "twice"
    /\ UNCHANGED <<nfun, nin, nout>>
    /\ UNCHANGED citVars
    /\ UNCHANGED graphVars
    /\ UNCHANGED pageVars
    /\ UNCHANGED verifyVars
    /\ UNCHANGED sessVars

NextNorm == Normalize \/ NormalizeAgain

SpecNorm == InitNorm /\ [][NextNorm]_vars

-----------------------------------------------------------------------------
(* Extraction of the identifiers of one free-text field *)

InitTokens ==
    /\ IdleSession
    /\ IdleCit
    /\ IdleGraph
    /\ IdlePage
    /\ IdleVerify
    /\ nfun = "extract_dois"
    /\ nin \in IdStrings
    /\ nout = <<>>
    /\ nout2 = <<>>
    /\ npc = "input"

\* extract_dois(doi_field): nout is the list of identifiers returned
Tokenize ==
    /\ npc = "input"
    /\ nfun = "extract_dois"
    /\ nout' = extract_dois(nin)
    /\ npc' = "tokens"
    /\ UNCHANGED <<nfun, nin, nout2>>
    /\ UNCHANGED citVars
    /\ UNCHANGED graphVars
    /\ UNCHANGED pageVars
    /\ UNCHANGED verifyVars
    /\ UNCHANGED sessVars

NextTokens == Tokenize

SpecTokens == InitTokens /\ [][NextTokens]_vars

-----------------------------------------------------------------------------
(* generate_citation_graph.py: create_subarea_graphs *)

AREAS == <<"ai", "arch", "bio", "chi", "cse", "data", "dbis", "ds", "formal",
           "graphics", "hardware", "ir", "net", "or", "pl", "robotics", "se",
           "security", "theory", "vision">>

AreaSet == {AREAS[k] : k \in DOMAIN AREAS}

UNKNOWN == <<"unknown">>

Row(o, t, osa, tsa) ==
    [origin_doi |-> o, target_doi |-> t, origin_sub_area |-> osa, target_sub_area |-> tsa]

\* the rows an edge file may hold (cells as written, blanks included)
FileRows ==
    { Row(<<"a">>, <<"b">>, <<"ai">>, <<>>),
      Row(<<"b">>, <<"a">>, <<"ai">>, <<"se">>),
      Row(<<"a">>, <<"b">>, <<>>, <<"se">>),
      Row(<<"a">>, <<"b">>, <<WS, "ai">>, <<"xx">>),
      Row(<<"a">>, <<"a">>, <<"ai">>, <<"se">>),
      Row(<<"b">>, <<"a">>, <<WS>>, <<"unknown">>),
      Row(<<WS, "b">>, <<"c", WS>>, <<"se">>, <<"ai", WS>>) }

\* cell.strip() if cell.strip() else "unknown"
SubAreaOf(cell) == IF Strip(cell) # <<>> THEN Strip(cell) ELSE UNKNOWN

QualifiedByOrigin(origin_sub_area, target_sub_area) ==
    {a \in AreaSet : <<a>> = origin_sub_area}

\* qualified_areas of one row
Qualified(origin_sub_area, target_sub_area) ==
    {a \in AreaSet : <<a>> = origin_sub_area} \cup {a \in AreaSet : <<a>> = target_sub_area}

EmptyGraph == [nodes |-> <<>>, edges |-> {}]

AddNodeAlways(g, n, attr) == [g EXCEPT !.nodes = (n :> attr) @@ g.nodes]

\* "if n not in graph: graph.add_node(n, sub_area=attr)"
AddNodeIfAbsent(g, n, attr) ==
    IF n \in DOMAIN g.nodes THEN g ELSE [g EXCEPT !.nodes = (n :> attr) @@ g.nodes]

\* the body of "for area in qualified_areas" on one graph
AddRow(g, origin_doi, target_doi, origin_sub_area, target_sub_area) ==
    LET g1 == AddNodeIfAbsent(g, origin_doi, origin_sub_area)
        g2 == AddNodeIfAbsent(g1, target_doi, target_sub_area)
    IN  [g2 EXCEPT !.edges = @ \cup {<<origin_doi, target_doi>>}]

InitGraph ==
    /\ IdleSession
    /\ IdleCit
    /\ IdleNorm
    /\ IdlePage
    /\ IdleVerify
    /\ rows \in UNION {[1..n -> FileRows] : n \in 0..MaxRows}
    /\ gpos = 0
    /\ graphs = [a \in AreaSet |-> EmptyGraph]

\* one iteration of "for row in reader"
ProcessRow ==
    /\ gpos < Len(rows)
    /\ LET row == rows[gpos + 1]
           origin_doi == Strip(row.origin_doi)
           target_doi == Strip(row.target_doi)
           origin_sub_area == SubAreaOf(row.origin_sub_area)
           target_sub_area == SubAreaOf(row.target_sub_area)
           qualified_areas == Qualified(origin_sub_area, target_sub_area)
       IN  graphs' = [a \in DOMAIN graphs |->
                        IF a \in qualified_areas
                        THEN AddRow(graphs[a], origin_doi, target_doi,
                                    origin_sub_area, target_sub_area)
                        ELSE graphs[a]]
    /\ gpos' = gpos + 1
    /\ UNCHANGED rows
    /\ UNCHANGED citVars
    /\ UNCHANGED normVars
    /\ UNCHANGED pageVars
    /\ UNCHANGED verifyVars
    /\ UNCHANGED sessVars

NextGraph == ProcessRow

SpecGraph == InitGraph /\ [][NextGraph]_vars

-----------------------------------------------------------------------------
(* *_open_alex_selenium.py: fetch_all_data, fetch_cited_by *)

\* the id of the k-th matching work, "https://openalex.org/W<k>": oa tells
\* whether the string still carries the "https://openalex.org/" prefix
WorkId(k) == [oa |-> TRUE, w |-> k]

\* id.removeprefix("https://openalex.org/")
RemoveOaPrefix(id) == [id EXCEPT !.oa = FALSE]

Min(a, b) == IF a < b THEN a ELSE b

\* the "results" of page p for page size pp, as the service lists them
PageWorks(p, pp) ==
    LET lo == (p - 1) * pp + 1
        hi == Min(p * pp, catalogue.count)
    IN  [k \in 1..(IF hi >= lo THEN hi - lo + 1 ELSE 0) |-> WorkId(lo + k - 1)]

\* parse_results / the loop over data["results"]: the ids, prefix removed
ParsedIds(works) == [k \in DOMAIN works |-> RemoveOaPrefix(works[k])]

\* meta.get("count", 0)
MetaCount == IF catalogue.meta THEN catalogue.count ELSE 0

FloorPages(total_count, pp) == IF total_count # 0 THEN total_count \div pp ELSE 1

\* ceil(total_count / per_page) if total_count else 1
TotalPages(total_count, pp) ==
    IF total_count # 0
    THEN (IF total_count % pp = 0 THEN total_count \div pp ELSE total_count \div pp + 1)
    ELSE 1

\* per_page=10 is what both scripts pass to fetch_all_data; fetch_cited_by
\* fixes 25
PageSizes(f) == IF f = "fetch_cited_by" THEN {25} ELSE {1, 3, 10, 25}

InitPage ==
    /\ IdleSession
    /\ IdleCit
    /\ IdleNorm
    /\ IdleGraph
    /\ IdleVerify
    /\ fetcher \in {"fetch_all_data", "fetch_cited_by"}
    /\ per_page \in PageSizes(fetcher)
    /\ catalogue \in [count : 0..MaxCount, meta : BOOLEAN]
    /\ requests = <<>>
    /\ total_pages = 0
    /\ results = <<>>
    /\ page_error = FALSE
    /\ ppc = "start"

AfterErrorSwallow == "returned"

\* a page fetch raised: fetch_all_data lets it through, fetch_cited_by
\* catches it and returns what it has
AfterError == IF fetcher = "fetch_all_data" THEN "raised" ELSE "returned"

\* where the fetch stands after page p with tp pages in all
AfterPage(p, tp) == IF p >= tp THEN "returned" ELSE "paging"

\* the request for page 1, and total_pages from its meta
FetchFirstPage ==
    /\ ppc = "start"
    /\ requests' = Append(requests, 1)
    /\ \E ok \in BOOLEAN :
          IF ok
          THEN /\ results' = results \o ParsedIds(PageWorks(1, per_page))
               /\ total_pages' = TotalPages(MetaCount, per_page)
               /\ ppc' = AfterPage(1, total_pages')
               /\ UNCHANGED page_error
          ELSE /\ page_error' = TRUE
               /\ ppc' = AfterError
               /\ UNCHANGED <<results, total_pages>>
    /\ UNCHANGED <<fetcher, per_page, catalogue>>
    /\ UNCHANGED citVars
    /\ UNCHANGED normVars
    /\ UNCHANGED graphVars
    /\ UNCHANGED verifyVars
    /\ UNCHANGED sessVars

\* one iteration of "for page in range(2, total_pages + 1)"
FetchNextPage ==
    /\ ppc = "paging"
    /\ LET page == Len(requests) + 1
       IN  /\ requests' = Append(requests, page)
           /\ \E ok \in BOOLEAN :
                 IF ok
                 THEN /\ results' = results \o ParsedIds(PageWorks(page, per_page))
                      /\ ppc' = AfterPage(page, total_pages)
                      /\ UNCHANGED page_error
                 ELSE /\ page_error' = TRUE
                      /\ ppc' = AfterError
                      /\ UNCHANGED results
    /\ UNCHANGED <<fetcher, per_page, catalogue, total_pages>>
    /\ UNCHANGED citVars
    /\ UNCHANGED normVars
    /\ UNCHANGED graphVars
    /\ UNCHANGED verifyVars
    /\ UNCHANGED sessVars

NextPage == FetchFirstPage \/ FetchNextPage

SpecPage == InitPage /\ [][NextPage]_vars

-----------------------------------------------------------------------------
(* verify_data.py *)

\* the characters of the identifiers of an edge list, in code-point order
Alphabet == <<WS, "a", "b", "c", "d">>

Ord(c) == CHOOSE k \in DOMAIN Alphabet : Alphabet[k] = c

\* s < t on strings
RECURSIVE StrLess(_, _)
StrLess(s, t) ==
    IF t = <<>> THEN FALSE
    ELSE IF s = <<>> THEN TRUE
    ELSE IF Head(s) # Head(t) THEN Ord(Head(s)) < Ord(Head(t))
    ELSE StrLess(Tail(s), Tail(t))

AsGiven(origin, target) == <<origin, target>>

\* tuple(sorted([origin, target]))
SortedPair(origin, target) ==
    IF StrLess(target, origin) THEN <<target, origin>> ELSE <<origin, target>>

CsvRow(o, t) == [origin_doi |-> o, target_doi |-> t]

\* the rows an edge list may hold (cells as written, blanks included)
CsvRows ==
    { CsvRow(<<"a">>, <<"b">>),
      CsvRow(<<"b">>, <<"a">>),
      CsvRow(<<"c">>, <<"d">>),
      CsvRow(<<WS, "b">>, <<"a", WS>>),
      CsvRow(<<"a", "b">>, <<"b">>),
      CsvRow(<<"b">>, <<"a", "b">>),
      CsvRow(<<"d">>, <<"c", WS>>),
      CsvRow(<<"a">>, <<"a">>) }

NoneFound == "No two-way citations were detected."

Found == "Two-way (bidirectional) citations found:"

InitVerify ==
    /\ IdleSession
    /\ IdleCit
    /\ IdleNorm
    /\ IdleGraph
    /\ IdlePage
    /\ csv_rows \in UNION {[1..n -> CsvRows] : n \in 0..MaxCsvRows}
    /\ vpos = 0
    /\ edges = {}
    /\ visited = {}
    /\ two_way_edges = {}
    /\ output = [header |-> "", pairs |-> <<>>]
    /\ vpc = "read"

\* one iteration of "for row in reader"
ReadRow ==
    /\ vpc = "read"
    /\ vpos < Len(csv_rows)
    /\ LET origin == Strip(csv_rows[vpos + 1].origin_doi)
           target == Strip(csv_rows[vpos + 1].target_doi)
       IN  edges' = edges \cup {<<origin, target>>}
    /\ vpos' = vpos + 1
    /\ UNCHANGED <<csv_rows, visited, two_way_edges, output, vpc>>
    /\ UNCHANGED citVars
    /\ UNCHANGED normVars
    /\ UNCHANGED graphVars
    /\ UNCHANGED pageVars
    /\ UNCHANGED sessVars

\* the file is exhausted: the with block ends
EndRead ==
    /\ vpc = "read"
    /\ vpos = Len(csv_rows)
    /\ vpc' = "scan"
    /\ UNCHANGED <<csv_rows, vpos, edges, visited, two_way_edges, output>>
    /\ UNCHANGED citVars
    /\ UNCHANGED normVars
    /\ UNCHANGED graphVars
    /\ UNCHANGED pageVars
    /\ UNCHANGED sessVars

\* one iteration of "for origin, target in edges" (a set: any order)
CheckEdge ==
    /\ vpc = "scan"
    /\ \E e \in edges \ visited :
          /\ visited' = visited \cup {e}
          /\ two_way_edges' = IF <<e[2], e[1]>> \in edges
                              THEN two_way_edges \cup {SortedPair(e[1], e[2])}
                              ELSE two_way_edges
    /\ UNCHANGED <<csv_rows, vpos, edges, output, vpc>>
    /\ UNCHANGED citVars
    /\ UNCHANGED normVars
    /\ UNCHANGED graphVars
    /\ UNCHANGED pageVars
    /\ UNCHANGED sessVars

\* the final if/else: the header and one line per pair (a set: any order)
PrintResults ==
    /\ vpc = "scan"
    /\ visited = edges
    /\ IF two_way_edges # {}
       THEN \E order \in [1..Cardinality(two_way_edges) -> two_way_edges] :
               /\ \A i, j \in DOMAIN order : order[i] = order[j] => i = j
               /\ output' = [header |-> Found, pairs |-> order]
       ELSE output' = [header |-> NoneFound, pairs |-> <<>>]
    /\ vpc' = "done"
    /\ UNCHANGED <<csv_rows, vpos, edges, visited, two_way_edges>>
    /\ UNCHANGED citVars
    /\ UNCHANGED normVars
    /\ UNCHANGED graphVars
    /\ UNCHANGED pageVars
    /\ UNCHANGED sessVars

NextVerify == ReadRow \/ EndRead \/ CheckEdge \/ PrintResults

SpecVerify == InitVerify /\ [][NextVerify]_vars

-----------------------------------------------------------------------------
(* The network resource of the collection scripts: the module-level driver of
   the two *_open_alex_selenium.py scripts, the module-level session of
   extraction_open_citations.py *)

Scripts == {"data_collection_open_alex_selenium", "extraction_open_alex_selenium",
            "extraction_open_citations"}

\* the fetches a script issues on its resource: pages of fetch_all_data,
\* pages of fetch_cited_by, queries of get_references / get_citations
FetchKinds(sc) ==
    IF sc = "data_collection_open_alex_selenium" THEN {"page"}
    ELSE IF sc = "extraction_open_alex_selenium" THEN {"page", "cited_by"}
    ELSE {"query"}

\* a failing fetch of this kind raises up to the script's top level;
\* fetch_cited_by, get_references and get_citations catch theirs
Propagates(kind) == kind = "page"

\* the top level of the script is a try/except/finally with driver.quit()
HasFinally(sc) == sc # "extraction_open_citations"

\* driver.get(url) / session.get(url, ...)
UseResource(r) ==
    [r EXCEPT !.fetches = @ + 1, !.late = IF r.open THEN @ ELSE @ + 1]

\* driver.quit()
Release(r) == [r EXCEPT !.open = FALSE, !.releases = @ + 1]

\* after import: webdriver.Chrome(...) / requests.Session() has run
InitSession ==
    /\ IdleCit
    /\ IdleNorm
    /\ IdleGraph
    /\ IdlePage
    /\ IdleVerify
    /\ script \in Scripts
    /\ resource = [open |-> TRUE, releases |-> 0, fetches |-> 0, late |-> 0]
    /\ runpc = "main"

\* one fetch on the resource, answered or failing
ScriptFetch ==
    /\ runpc = "main"
    /\ resource.fetches < MaxFetches
    /\ resource' = UseResource(resource)
    /\ \E kind \in FetchKinds(script), ok \in BOOLEAN :
          runpc' = IF ~ok /\ Propagates(kind)
                   THEN (IF HasFinally(script) THEN "finally_err" ELSE "exited_err")
                   ELSE "main"
    /\ UNCHANGED script
    /\ UNCHANGED citVars
    /\ UNCHANGED normVars
    /\ UNCHANGED graphVars
    /\ UNCHANGED pageVars
    /\ UNCHANGED verifyVars

\* the rest of the top level (DataFrame, to_csv) runs and returns or raises
ScriptEnd ==
    /\ runpc = "main"
    /\ \E ok \in BOOLEAN :
          runpc' = IF HasFinally(script)
                   THEN (IF ok THEN "finally_ok" ELSE "finally_err")
                   ELSE (IF ok THEN "exited_ok" ELSE "exited_err")
    /\ UNCHANGED <<script, resource>>
    /\ UNCHANGED citVars
    /\ UNCHANGED normVars
    /\ UNCHANGED graphVars
    /\ UNCHANGED pageVars
    /\ UNCHANGED verifyVars

\* finally: driver.quit(), then the process ends
ScriptFinally ==
    /\ runpc \in {"finally_ok", "finally_err"}
    /\ resource' = Release(resource)
    /\ runpc' = IF runpc = "finally_ok" THEN "exited_ok" ELSE "exited_err"
    /\ UNCHANGED script
    /\ UNCHANGED citVars
    /\ UNCHANGED normVars
    /\ UNCHANGED graphVars
    /\ UNCHANGED pageVars
    /\ UNCHANGED verifyVars

NextSession == ScriptFetch \/ ScriptEnd \/ ScriptFinally

SpecSession == InitSession /\ [][NextSession]_vars

-----------------------------------------------------------------------------
(* Properties of the edge collection (extraction_open_citations.py) *)

Range(s) == {s[i] : i \in DOMAIN s}

Count(s, e) == Cardinality({i \in DOMAIN s : s[i] = e})

Ended(i) == tasks[i].st \in {"finished", "collected"}

NoSelfLoop(edge_list) == \A i \in DOMAIN edge_list : edge_list[i].origin_doi # edge_list[i].target_doi

\* C1: no list of edges held anywhere in a run (what get_references and
\* get_citations gave a task, what process_doi returned, the accumulator, the
\* written rows) holds an edge whose origin_doi equals its target_doi.
C1_SelfLoopSuppression ==
    /\ \A i \in DOMAIN tasks :
          NoSelfLoop(tasks[i].refs) /\ NoSelfLoop(tasks[i].cits) /\ NoSelfLoop(tasks[i].ret)
    /\ NoSelfLoop(all_edges)
    /\ NoSelfLoop(df_edges)

\* a run ended in which an answer listed the publication itself (a skip was
\* logged) beside other identifiers, and its edges reached the output
C1_Witness ==
    /\ mainpc = "done"
    /\ \E i \in DOMAIN tasks :
          tasks[i].skips > 0 /\ tasks[i].ret # <<>> /\ Range(tasks[i].ret) \subseteq Range(df_edges)

\* C2: once main has written its output, no two written rows are equal on the
\* full tuple, and the written rows are exactly the accumulated tuples (each
\* at least once, hence exactly once).
C2_Deduplication ==
    mainpc = "done" =>
        /\ \A i, j \in DOMAIN df_edges : df_edges[i] = df_edges[j] => i = j
        /\ Range(df_edges) = Range(all_edges)

\* a run ended in which some tuple had been accumulated more than once
C2_Witness ==
    /\ mainpc = "done"
    /\ \E e \in Range(all_edges) : Count(all_edges, e) >= 2 /\ Count(df_edges, e) = 1

\* C5: no exception escapes process_doi, and when exactly one of the two
\* queries failed while the other was answered, process_doi returns exactly
\* the edges of the answered one.  (A malformed body counts as a failure.)
C5_PartialFailureIsolation ==
    \A i \in DOMAIN tasks :
        Ended(i) =>
            /\ tasks[i].exc = ""
            /\ (tasks[i].refs_q # "ok" /\ tasks[i].cits_q = "ok" => tasks[i].ret = tasks[i].cits)
            /\ (tasks[i].refs_q = "ok" /\ tasks[i].cits_q # "ok" => tasks[i].ret = tasks[i].refs)

Succeeded == {i \in DOMAIN tasks : tasks[i].st = "collected" /\ tasks[i].exc = ""}

RECURSIVE CountIn(_, _)
CountIn(S, e) ==
    IF S = {} THEN 0
    ELSE LET i == CHOOSE x \in S : TRUE
         IN  Count(tasks[i].ret, e) + CountIn(S \ {i}, e)

\* C9: main never dies of a task's exception; until the output is written
\* it can always take a further step; the accumulator holds exactly the edges
\* returned by the collected tasks that did not raise (as many times as they
\* returned them); the output is written only after every task was collected,
\* and is empty when every task raised.
C9_FailureContainment ==
    /\ mainpc # "crashed"
    /\ (mainpc # "done" => ENABLED Next)
    /\ \A e \in Range(all_edges) \cup UNION {Range(tasks[i].ret) : i \in Succeeded} :
          Count(all_edges, e) = CountIn(Succeeded, e)
    /\ (mainpc = "done" =>
          /\ AllCollected
          /\ Range(df_edges) = UNION {Range(tasks[i].ret) : i \in Succeeded}
          /\ ((\A i \in DOMAIN tasks : tasks[i].exc # "") => df_edges = <<>>))

\* a run ended in which one task raised and another returned edges
C9_Witness ==
    /\ mainpc = "done"
    /\ \E i, j \in DOMAIN tasks :
          /\ tasks[i].exc # ""
          /\ tasks[j].exc = "" /\ tasks[j].ret # <<>>
          /\ Range(tasks[j].ret) \subseteq Range(df_edges)

\* C10: never more than max_workers process_doi calls run at once; no entry of
\* the submitted list is run twice; every entry that left the queue was run
\* once, and when main is done every entry was.
C10_BoundedPool ==
    /\ Cardinality(Running) <= max_workers
    /\ DOMAIN tasks = DOMAIN pubs
    /\ \A i \in DOMAIN tasks :
          /\ tasks[i].runs <= 1
          /\ (tasks[i].st \in {"running", "finished", "collected"} => tasks[i].runs = 1)
          /\ (mainpc = "done" => tasks[i].runs = 1)

\* the pool is full and a submitted entry waits in the queue
C10_Witness ==
    /\ Cardinality(Running) = max_workers
    /\ \E i \in DOMAIN tasks : tasks[i].st = "queued"

-----------------------------------------------------------------------------
(* Properties of identifier normalisation *)

\* the identifier begins with a scheme marker, in either letter case
BeginsWithScheme(s) == Len(s) >= 1 /\ LowerAtom(s[1]) \in {DOI_MARK, URL_MARK}

\* C8 as stated: an identifier that does not begin with a scheme prefix (the
\* resolver URL or the doi: marker) is returned unchanged by the normaliser.
C8_PrefixFreeUnchanged ==
    (npc \in {"once", "twice"} /\ ~BeginsWithScheme(nin)) => nout = nin

\* what each normaliser leaves alone.  extract_doi: no blank at either end,
\* no resolver URL (either case) in front, and nowhere a doi: marker (either
\* case) followed by a non-blank.  parse_results: no "https://doi.org/" in
\* front.
PassesThrough(f, s) ==
    IF f = "extract_doi"
    THEN /\ s = <<>> \/ (s[1] # WS /\ s[Len(s)] # WS)
         /\ ~(Len(s) >= 1 /\ s[1] \in {URL_MARK, URL_MARK_UC})
         /\ \A i \in 1..(Len(s) - 1) :
               s[i] \in {DOI_MARK, DOI_MARK_UC} => s[i + 1] = WS
    ELSE ~(Len(s) >= 1 /\ s[1] = URL_MARK)

\* C8 (amended): an identifier that PassesThrough is returned unchanged, and
\* normalising the result a second time returns the same value again.
C8_Amended ==
    PassesThrough(nfun, nin) =>
        /\ (npc \in {"once", "twice"} => nout = nin)
        /\ (npc = "twice" => nout2 = nout)

\* extract_doi was applied twice to an identifier that holds markers (the
\* resolver URL inside, a doi: marker at its end) and came back unchanged
C8_Witness ==
    /\ npc = "twice"
    /\ nfun = "extract_doi"
    /\ PassesThrough(nfun, nin)
    /\ \E i, j \in DOMAIN nin : nin[i] = URL_MARK /\ nin[j] = DOI_MARK
    /\ nout2 = nin

-----------------------------------------------------------------------------
(* Properties of the graph partitioning (generate_citation_graph.py) *)

\* the rows processed so far
Processed == 1..gpos

\* row i names sub-area S on either side (cells as read: trimmed, blank read
\* as "unknown")
RowNames(i, S) ==
    SubAreaOf(rows[i].origin_sub_area) = <<S>> \/ SubAreaOf(rows[i].target_sub_area) = <<S>>

RowEdge(i) == <<Strip(rows[i].origin_doi), Strip(rows[i].target_doi)>>

\* C3: there is one graph per configured sub-area and no other; the edges of
\* graph S are exactly the (origin, target) pairs of the processed rows that
\* name S as origin or target sub-area, so a row naming only blank, "unknown"
\* or unconfigured sub-areas adds to no graph.
C3_PartitionCorrectness ==
    /\ DOMAIN graphs = AreaSet
    /\ \A k \in DOMAIN AREAS :
          graphs[AREAS[k]].edges = {RowEdge(i) : i \in {j \in Processed : RowNames(j, AREAS[k])}}

\* all rows are read; one row went to two graphs, another (blank and
\* unconfigured sub-areas) to none
C3_Witness ==
    /\ gpos = Len(rows)
    /\ \E i \in Processed :
          /\ RowNames(i, "ai") /\ RowNames(i, "se")
          /\ RowEdge(i) \in graphs["ai"].edges /\ RowEdge(i) \in graphs["se"].edges
    /\ \E i \in Processed :
          /\ Strip(rows[i].origin_sub_area) = <<>>
          /\ \A S \in AreaSet : ~RowNames(i, S) /\ RowEdge(i) \notin graphs[S].edges

\* the processed rows that put node n into graph S
Mentions(S, n) ==
    {i \in Processed : RowNames(i, S) /\ (RowEdge(i)[1] = n \/ RowEdge(i)[2] = n)}

\* the attribute row i gives node n: the origin's when n is its origin
AttrIn(i, n) ==
    IF RowEdge(i)[1] = n THEN SubAreaOf(rows[i].origin_sub_area)
    ELSE SubAreaOf(rows[i].target_sub_area)

\* C4: in every graph the nodes are those of the rows that went to it, and a
\* node's sub_area attribute is the one given by the first such row, whatever
\* later rows say about the node.
C4_FirstWriteWins ==
    \A S \in DOMAIN graphs :
        /\ DOMAIN graphs[S].nodes = {n \in {RowEdge(i)[1] : i \in Processed} \cup
                                           {RowEdge(i)[2] : i \in Processed} :
                                      Mentions(S, n) # {}}
        /\ \A n \in DOMAIN graphs[S].nodes :
              LET first == CHOOSE i \in Mentions(S, n) : \A j \in Mentions(S, n) : i <= j
              IN  graphs[S].nodes[n] = AttrIn(first, n)

\* a later row of the same graph gave an inserted node another sub_area
C4_Witness ==
    \E S \in DOMAIN graphs :
        \E n \in DOMAIN graphs[S].nodes :
            \E i \in Mentions(S, n) : AttrIn(i, n) # graphs[S].nodes[n]

-----------------------------------------------------------------------------
(* Properties of the paginated fetch *)

\* the least number of pages of the given size that hold n items
PagesFor(n, size) == CHOOSE m \in 0..n : m * size >= n /\ (m = 0 \/ (m - 1) * size < n)

\* the number of pages the fetch must request, from what page 1 reports
ExpectedPages ==
    IF catalogue.meta /\ catalogue.count > 0 THEN PagesFor(catalogue.count, per_page) ELSE 1

\* C6: the pages are requested in the order 1, 2, 3, ... and never beyond
\* ceil(total_count / per_page) (1 when the count is zero or absent); a fetch
\* that returns without a page error has requested exactly that many pages
\* and returns the works of those pages in page order.
C6_Pagination ==
    /\ \A k \in DOMAIN requests : requests[k] = k
    /\ Len(requests) <= ExpectedPages
    /\ (ppc = "returned" /\ ~page_error =>
          /\ Len(requests) = ExpectedPages
          /\ Len(results) = Min(catalogue.count, ExpectedPages * per_page)
          /\ \A k \in DOMAIN results : results[k] = [oa |-> FALSE, w |-> k])

\* the case of the text: 95 works in pages of 25 took exactly 4 requests
C6_Witness ==
    /\ ppc = "returned"
    /\ ~page_error
    /\ catalogue = [count |-> 95, meta |-> TRUE]
    /\ per_page = 25
    /\ requests = <<1, 2, 3, 4>>
    /\ Len(results) = 95

-----------------------------------------------------------------------------
(* Properties of the bidirectional check (verify_data.py) *)

\* the pairs of the file, cells trimmed
LoadedPairs ==
    {<<Strip(csv_rows[i].origin_doi), Strip(csv_rows[i].target_doi)>> : i \in DOMAIN csv_rows}

\* the loaded pairs whose reverse is loaded too
Mutual == {p \in LoadedPairs : <<p[2], p[1]>> \in LoadedPairs}

\* C7: when the script is done, with no mutual pair it has printed the "none
\* found" line and nothing else; otherwise it has printed the header and,
\* for every mutual pair {a, b}, exactly one line, which is the pair in
\* sorted order, and no line for any other pair.
C7_BidirectionalDetection ==
    vpc = "done" =>
        IF Mutual = {}
        THEN output = [header |-> NoneFound, pairs |-> <<>>]
        ELSE /\ output.header = Found
             /\ \A k \in DOMAIN output.pairs :
                   /\ output.pairs[k] \in Mutual
                   /\ ~StrLess(output.pairs[k][2], output.pairs[k][1])
             /\ \A p \in Mutual :
                   Cardinality({k \in DOMAIN output.pairs :
                                  output.pairs[k] \in {p, <<p[2], p[1]>>}}) = 1

\* the case of the text: (a,b), (b,a) and (c,d) were loaded, and the one line
\* printed is (a,b)
C7_Witness ==
    /\ vpc = "done"
    /\ LoadedPairs = { << <<"a">>, <<"b">> >>, << <<"b">>, <<"a">> >>, << <<"c">>, <<"d">> >> }
    /\ output = [header |-> Found, pairs |-> << << <<"a">>, <<"b">> >> >>]

-----------------------------------------------------------------------------
(* Properties of independently discovered pairs (extraction_open_citations.py) *)

\* the written rows that stand for the pair (o, t)
RowsOfPair(o, t) ==
    {k \in DOMAIN df_edges : df_edges[k].origin_doi = o /\ df_edges[k].target_doi = t}

\* C11: when main has written its output and a pair (A, B) was returned both
\* as a reference of seed A and as a citation of seed B, the written rows
\* hold exactly one row for (A, B).
C11_IndependentPairsCollapse ==
    mainpc = "done" =>
        \A i, j \in Succeeded :
            \A e \in Range(tasks[i].refs), f \in Range(tasks[j].cits) :
                (e.origin_doi = f.origin_doi /\ e.target_doi = f.target_doi) =>
                    Cardinality(RowsOfPair(e.origin_doi, e.target_doi)) = 1

-----------------------------------------------------------------------------
(* Properties of a failing first page *)

\* the request for page 1 raised
FirstPageFailed == page_error /\ requests = <<1>>

\* C12 as stated: in both fetches an error on page 1 propagates to the
\* caller, so the fetch returns nothing.
C12_FirstPageFailurePropagates ==
    FirstPageFailed => ppc = "raised"

\* C12 (amended): an error on page 1 ends the fetch with no further request
\* and no work collected; fetch_all_data lets the error propagate to its
\* caller, fetch_cited_by catches it and returns the empty list.
C12_Amended ==
    FirstPageFailed =>
        /\ results = <<>>
        /\ ~ENABLED NextPage
        /\ (fetcher = "fetch_all_data" => ppc = "raised")
        /\ (fetcher = "fetch_cited_by" => ppc = "returned")

\* page 1 of fetch_all_data raised although the catalogue holds works
C12_Witness ==
    /\ FirstPageFailed
    /\ fetcher = "fetch_all_data"
    /\ catalogue.count > 0 /\ catalogue.meta
    /\ ppc = "raised"

-----------------------------------------------------------------------------
(* Properties of edge orientation and tagging (process_doi) *)

\* every edge of the list has the publication of task i on the origin side,
\* tagged with its sub-area, and an unresolved target sub-area
OutgoingOf(i, edge_list) ==
    \A k \in DOMAIN edge_list :
        /\ edge_list[k].origin_doi = pubs[i][1]
        /\ edge_list[k].origin_sub_area = pubs[i][2]
        /\ edge_list[k].target_sub_area = NoneVal

\* every edge of the list has the publication of task i on the target side,
\* tagged with its sub-area, and an unresolved origin sub-area
IncomingOf(i, edge_list) ==
    \A k \in DOMAIN edge_list :
        /\ edge_list[k].target_doi = pubs[i][1]
        /\ edge_list[k].target_sub_area = pubs[i][2]
        /\ edge_list[k].origin_sub_area = NoneVal

\* C13: the edges process_doi derives from the references query have the
\* publication as origin_doi, its sub-area as origin_sub_area and a null
\* target_sub_area; those from the citations query have the publication as
\* target_doi, its sub-area as target_sub_area and a null origin_sub_area;
\* a process_doi that returns, returns the first group followed by the second
\* and nothing else.
C13_EdgeOrientationAndTagging ==
    \A i \in DOMAIN tasks :
        /\ OutgoingOf(i, tasks[i].refs)
        /\ IncomingOf(i, tasks[i].cits)
        /\ (Ended(i) /\ tasks[i].exc = "" =>
              /\ tasks[i].ret = tasks[i].refs \o tasks[i].cits
              /\ \A e \in Range(tasks[i].ret) :
                    \/ OutgoingOf(i, <<e>>)
                    \/ IncomingOf(i, <<e>>))

\* a process_doi returned edges of both groups
C13_Witness ==
    \E i \in DOMAIN tasks :
        /\ Ended(i) /\ tasks[i].exc = ""
        /\ tasks[i].refs # <<>> /\ tasks[i].cits # <<>>
        /\ Len(tasks[i].ret) = Len(tasks[i].refs) + Len(tasks[i].cits)

-----------------------------------------------------------------------------
(* Properties of token extraction (extract_dois) *)

\* for every token that begins with a scheme marker (either letter case),
\* in order, the token with that marker removed
RECURSIVE MarkedTokens(_)
MarkedTokens(tokens) ==
    IF tokens = <<>> THEN <<>>
    ELSE (IF BeginsWithScheme(Head(tokens)) THEN <<Tail(Head(tokens))>> ELSE <<>>)
         \o MarkedTokens(Tail(tokens))

\* C14: extract_dois returns, in input order, one identifier for each
\* whitespace-separated token that begins with a scheme marker (doi: or the
\* resolver URL, in either letter case) and nothing for any other token; the
\* identifier is the token with its marker removed, so no returned identifier
\* begins with a marker.
C14_TokenExtraction ==
    npc = "tokens" =>
        /\ nout = MarkedTokens(SplitWS(nin))
        /\ \A k \in DOMAIN nout : ~BeginsWithScheme(nout[k])

-----------------------------------------------------------------------------
(* Properties of the accumulation (main) *)

\* a step of a pool worker: a work item is taken, or process_doi ends
WorkerStep ==
    \E i \in DOMAIN tasks :
        /\ tasks[i].st \in {"queued", "running"}
        /\ tasks'[i].st # tasks[i].st

\* a step of main's as_completed loop that appends one task's returned list
MainAppends ==
    /\ mainpc = "pool"
    /\ \E i \in DOMAIN tasks :
          /\ tasks[i].st = "finished" /\ tasks'[i].st = "collected"
          /\ tasks[i].exc = ""
          /\ all_edges' = all_edges \o tasks[i].ret

\* C15: no step of a worker changes the accumulator; it changes only when
\* main appends the list returned by one finished task; and whatever the
\* order in which the tasks ended and were collected, the rows written are,
\* as a set, the union of the lists returned by the tasks that did not raise.
C15_OrderIndependentAccumulation ==
    [][ /\ (WorkerStep => all_edges' = all_edges)
        /\ (all_edges' # all_edges => MainAppends)
        /\ (mainpc # "done" /\ mainpc' = "done" =>
              Range(df_edges') = UNION {Range(tasks[i].ret) : i \in Succeeded}) ]_vars

\* a run ended in which the second task was collected before the first, both
\* having returned edges
C15_Witness ==
    /\ mainpc = "done"
    /\ Len(tasks) = 2
    /\ Succeeded = {1, 2}
    /\ tasks[1].ret # <<>> /\ tasks[2].ret # <<>>
    /\ all_edges = tasks[2].ret \o tasks[1].ret
    /\ all_edges # tasks[1].ret \o tasks[2].ret

-----------------------------------------------------------------------------
(* Properties of the network resource *)

\* the process has ended
Exited == runpc \in {"exited_ok", "exited_err"}

\* C16: in every run of each collection script the resource is released at
\* most once, no fetch is issued on it after its release, and when the
\* process has ended (normally or by an exception) it was released exactly
\* once.
C16_SessionRelease ==
    /\ resource.releases <= 1
    /\ resource.late = 0
    /\ (Exited => resource.releases = 1 /\ ~resource.open)

====
